---------------------------- MODULE Spec2Model ----------------------------
(***************************************************************************)
(* Model of HeatLossService (packages/api/src/services/heatLoss.service.ts)*)
(* and of a caller that invokes its three static operations.               *)
(*                                                                         *)
(* NUMBERS.  The service computes on IEEE doubles.  The model computes on  *)
(* exact fixed-point numbers and draws every input from a grid on which    *)
(* each intermediate value of the code is exactly representable:           *)
(*   - temperatures are whole degrees C;                                   *)
(*   - U-values are counted in 1/UScale W/m2K, air changes in 1/AchScale;  *)
(*   - areas are counted in 1/AreaScale m2 and are squares of a side       *)
(*     counted in 1/LenScale m, so that Math.sqrt(area) is exact;          *)
(*   - every computed quantity (watts, reported degrees, the correction    *)
(*     factor) is an integer count of 1/Scale.                             *)
(* NaN and +-Infinity appear only where the code produces them from finite *)
(* inputs (calculateRadiatorSize); they are the tagged values NaN, PosInf  *)
(* and NegInf.  Inputs themselves are finite numbers.                      *)
(***************************************************************************)
EXTENDS Integers, Sequences, FiniteSets, TLC

(***************************************************************************)
(* Fixed-point resolutions.                                                *)
(***************************************************************************)
Scale == 32000       \* computed quantities: 1 = 1/32000 (W, degree C, factor)
UScale == 100        \* U-values in hundredths of W/m2K
AchScale == 10       \* air change rate in tenths of ACH
VolScale == 8        \* volumes in eighths of m3
AreaScale == 16      \* areas in sixteenths of m2
LenScale == 4        \* lengths in quarters of m (LenScale^2 = AreaScale)

(***************************************************************************)
(* CONSTANTS of the service.                                               *)
(***************************************************************************)
AIR_DENSITY == 12            \* 1.2 kg/m3, in tenths
SPECIFIC_HEAT_AIR == 1005    \* J/(kg K)
SAFETY_FACTOR == 115         \* 1.15, in hundredths
MIN_OUTDOOR_TEMP == -20
MAX_OUTDOOR_TEMP == 15
MIN_INDOOR_TEMP == 15
MAX_INDOOR_TEMP == 25
MAX_U_VALUE == 10            \* the literal 10 of the U-value checks
MAX_AIR_CHANGE_RATE == 10    \* the literal 10 of the air change rate check
WALL_COUNT == 4              \* exteriorWallFactor = exteriorWalls / 4
SECONDS_PER_HOUR == 3600     \* volumeFlowRate / 3600
DEFAULT_PRECISION == 2       \* round(value, precision = 2)
CORRECTION_PRECISION == 3    \* round(correction, 3)
STANDARD_TEMP_DIFF == 50     \* standardTempDiff
DEFAULT_FLOW_TEMP == 75      \* flowTemp: number = 75
DEFAULT_RETURN_TEMP == 65    \* returnTemp: number = 65
DEFAULT_ROOM_TEMP == 20      \* roomTemp: number = 20
\* method: the label of line 159, and a label of another model.
METHOD_SIMPLIFIED == "SIMPLIFIED"

METHOD == "EN_12831"

(***************************************************************************)
(* Bounds of the model.                                                    *)
(***************************************************************************)
ElapsedMs == {0, 1}  \* what Date.now() can advance by during one call (ms)
MaxCalls == 3        \* calls a caller makes in one behaviour
MaxRooms == 2        \* rooms of a building
MaxErrors == 1       \* errors that reach errorHandler in one behaviour

(***************************************************************************)
(* Arithmetic helpers.                                                     *)
(***************************************************************************)
Pow10(n) == IF n = 0 THEN 1 ELSE IF n = 1 THEN 10 ELSE IF n = 2 THEN 100 ELSE 1000

\* Rounding of the rational n / d (d > 0) to the nearest integer, a value
\* exactly halfway between two integers going to the even one.
RoundHalfEven(n, d) ==
    LET down == n \div d
    IN  IF 2 * (n % d) < d THEN down
        ELSE IF 2 * (n % d) > d THEN down + 1
        ELSE down + (down % 2)

\* Math.round of the rational n / d (d > 0): floor(n / d + 1/2), so that a
\* value exactly halfway between two integers goes to the larger one.
RoundHalfUp(n, d) == (2 * n + d) \div (2 * d)

\* Math.sqrt on a count of 1/AreaScale m2: the side in 1/LenScale m.
\* Exact on the grid (areas are squares); floor elsewhere.
Sqrt(a) == CHOOSE r \in 0..(a + 1) : r * r <= a /\ (r + 1) * (r + 1) > a

RECURSIVE SumSeq(_)
SumSeq(s) == IF s = <<>> THEN 0 ELSE Head(s) + SumSeq(Tail(s))

(***************************************************************************)
(* round(value, precision): Math.round(value * 10^precision) / 10^precision*)
(* Math.round rounds to the nearest integer, halves towards +Infinity,     *)
(* i.e. floor(x + 1/2).  The result is again a count of 1/Scale.           *)
(***************************************************************************)
round(value, precision) ==
    LET multiplier == Pow10(precision)
        unit == Scale \div multiplier
    IN  RoundHalfUp(value, unit) * unit

\* round(value * factor), factor a count of 1/factorScale: the product is
\* rounded as the exact rational it is (it need not be a count of 1/Scale).
roundProduct(value, factor, factorScale, precision) ==
    LET multiplier == Pow10(precision)
        unit == Scale \div multiplier
        d == factorScale * unit
    IN  ((value \div d) * factor + RoundHalfUp((value % d) * factor, d)) * unit

(***************************************************************************)
(* validateInputs: the first failing check throws; NoError when none does. *)
(***************************************************************************)
NoError == "none"

\* params.xUValue <= 0 || params.xUValue > 10, and the same with >= 10
UValueRejectedStrict(u) == u <= 0 \/ u >= MAX_U_VALUE * UScale

UValueRejected(u) == u <= 0 \/ u > MAX_U_VALUE * UScale

\* params.airChangeRate < 0 || params.airChangeRate > 10
AirChangeRateRejected(a) == a < 0 \/ a > MAX_AIR_CHANGE_RATE * AchScale

\* The same checks with room.volume tested before room.area.
validateInputsVolumeFirst(room, params) ==
    IF room.volume <= 0 THEN "Room volume must be greater than 0"
    ELSE IF room.area <= 0 THEN "Room area must be greater than 0"
    ELSE IF room.ceilingHeight <= 0 THEN "Ceiling height must be greater than 0"
    ELSE IF params.outdoorTemp < MIN_OUTDOOR_TEMP
         THEN "Outdoor temperature too low (min: -20°C)"
    ELSE IF params.outdoorTemp > MAX_OUTDOOR_TEMP
         THEN "Outdoor temperature too high (max: 15°C)"
    ELSE IF params.indoorTemp < MIN_INDOOR_TEMP
         THEN "Indoor temperature too low (min: 15°C)"
    ELSE IF params.indoorTemp > MAX_INDOOR_TEMP
         THEN "Indoor temperature too high (max: 25°C)"
    ELSE IF params.indoorTemp <= params.outdoorTemp
         THEN "Indoor temperature must be greater than outdoor temperature"
    ELSE IF UValueRejected(params.wallUValue)
         THEN "Invalid wall U-value (must be 0-10 W/m²K)"
    ELSE IF UValueRejected(params.windowUValue)
         THEN "Invalid window U-value (must be 0-10 W/m²K)"
    ELSE IF UValueRejected(params.floorUValue)
         THEN "Invalid floor U-value (must be 0-10 W/m²K)"
    ELSE IF UValueRejected(params.ceilingUValue)
         THEN "Invalid ceiling U-value (must be 0-10 W/m²K)"
    ELSE IF AirChangeRateRejected(params.airChangeRate)
         THEN "Invalid air change rate (must be 0-10 ACH)"
    ELSE NoError

\* The comparison of the two temperatures moved before the range checks.
validateInputsDifferenceFirst(room, params) ==
    IF room.area <= 0 THEN "Room area must be greater than 0"
    ELSE IF room.volume <= 0 THEN "Room volume must be greater than 0"
    ELSE IF room.ceilingHeight <= 0 THEN "Ceiling height must be greater than 0"
    ELSE IF params.indoorTemp <= params.outdoorTemp
         THEN "Indoor temperature must be greater than outdoor temperature"
    ELSE IF params.outdoorTemp < MIN_OUTDOOR_TEMP
         THEN "Outdoor temperature too low (min: -20°C)"
    ELSE IF params.outdoorTemp > MAX_OUTDOOR_TEMP
         THEN "Outdoor temperature too high (max: 15°C)"
    ELSE IF params.indoorTemp < MIN_INDOOR_TEMP
         THEN "Indoor temperature too low (min: 15°C)"
    ELSE IF params.indoorTemp > MAX_INDOOR_TEMP
         THEN "Indoor temperature too high (max: 25°C)"
    ELSE IF UValueRejected(params.wallUValue)
         THEN "Invalid wall U-value (must be 0-10 W/m²K)"
    ELSE IF UValueRejected(params.windowUValue)
         THEN "Invalid window U-value (must be 0-10 W/m²K)"
    ELSE IF UValueRejected(params.floorUValue)
         THEN "Invalid floor U-value (must be 0-10 W/m²K)"
    ELSE IF UValueRejected(params.ceilingUValue)
         THEN "Invalid ceiling U-value (must be 0-10 W/m²K)"
    ELSE IF AirChangeRateRejected(params.airChangeRate)
         THEN "Invalid air change rate (must be 0-10 ACH)"
    ELSE NoError

validateInputs(room, params) ==
    IF room.area <= 0 THEN "Room area must be greater than 0"
    ELSE IF room.volume <= 0 THEN "Room volume must be greater than 0"
    ELSE IF room.ceilingHeight <= 0 THEN "Ceiling height must be greater than 0"
    ELSE IF params.outdoorTemp < MIN_OUTDOOR_TEMP
         THEN "Outdoor temperature too low (min: -20°C)"
    ELSE IF params.outdoorTemp > MAX_OUTDOOR_TEMP
         THEN "Outdoor temperature too high (max: 15°C)"
    ELSE IF params.indoorTemp < MIN_INDOOR_TEMP
         THEN "Indoor temperature too low (min: 15°C)"
    ELSE IF params.indoorTemp > MAX_INDOOR_TEMP
         THEN "Indoor temperature too high (max: 25°C)"
    ELSE IF params.indoorTemp <= params.outdoorTemp
         THEN "Indoor temperature must be greater than outdoor temperature"
    ELSE IF UValueRejected(params.wallUValue)
         THEN "Invalid wall U-value (must be 0-10 W/m²K)"
    ELSE IF UValueRejected(params.windowUValue)
         THEN "Invalid window U-value (must be 0-10 W/m²K)"
    ELSE IF UValueRejected(params.floorUValue)
         THEN "Invalid floor U-value (must be 0-10 W/m²K)"
    ELSE IF UValueRejected(params.ceilingUValue)
         THEN "Invalid ceiling U-value (must be 0-10 W/m²K)"
    ELSE IF AirChangeRateRejected(params.airChangeRate)
         THEN "Invalid air change rate (must be 0-10 ACH)"
    ELSE NoError

(***************************************************************************)
(* calculateTransmissionLoss.  U (1/UScale) * area (1/AreaScale) *         *)
(* exteriorWalls (1/WALL_COUNT) * tempDiff is a count of                   *)
(* 1/(UScale*AreaScale*WALL_COUNT) W; ToWatts brings it to 1/Scale W.      *)
(***************************************************************************)
ToWatts(x) == x * (Scale \div (UScale * AreaScale * WALL_COUNT))

\* wallArea = totalWallArea - room.windowArea, and the same clamped at 0.
WallAreaClamped(totalWallArea, windowArea) ==
    IF totalWallArea < windowArea THEN 0 ELSE totalWallArea - windowArea

WallArea(totalWallArea, windowArea) == totalWallArea - windowArea

\* exteriorWallFactor = room.exteriorWalls / 4 as a count of quarters, and
\* the same clamped to 0..1.
ExteriorWallFactorClamped(exteriorWalls) ==
    IF exteriorWalls < 0 THEN 0
    ELSE IF exteriorWalls > WALL_COUNT THEN WALL_COUNT
    ELSE exteriorWalls

\* The same with a room counted as having one exterior wall at least.
ExteriorWallFactorAtLeastOne(exteriorWalls) ==
    IF exteriorWalls < 1 THEN 1 ELSE exteriorWalls

ExteriorWallFactor(exteriorWalls) == exteriorWalls

\* floorLoss = floorUValue * floorArea * tempDiff * 0.5, on a count of
\* 1/WALL_COUNT: * WALL_COUNT / 2; and the same without the 0.5.
FloorLossWhole(floorUValue, floorArea, tempDiff) ==
    floorUValue * floorArea * tempDiff * WALL_COUNT

FloorLoss(floorUValue, floorArea, tempDiff) ==
    (floorUValue * floorArea * tempDiff * WALL_COUNT) \div 2

\* ceilingLoss = ceilingUValue * ceilingArea * tempDiff, and the term lost.
CeilingLossDropped(ceilingUValue, ceilingArea, tempDiff) == 0

CeilingLoss(ceilingUValue, ceilingArea, tempDiff) ==
    ceilingUValue * ceilingArea * tempDiff * WALL_COUNT

calculateTransmissionLoss(room, params, tempDiff) ==
    LET floorArea == room.area
        ceilingArea == room.area
        roomPerimeter == 4 * Sqrt(floorArea)                    \* 1/LenScale m
        totalWallArea == roomPerimeter * room.ceilingHeight     \* 1/AreaScale m2
        wallArea == WallArea(totalWallArea, room.windowArea)
        \* the areas below are counts of 1/(AreaScale * WALL_COUNT) m2
        effectiveWallArea == wallArea * ExteriorWallFactor(room.exteriorWalls)
        effectiveWindowArea ==
            room.windowArea * ExteriorWallFactor(room.exteriorWalls)
        wallLoss == params.wallUValue * effectiveWallArea * tempDiff
        windowLoss == params.windowUValue * effectiveWindowArea * tempDiff
        floorLoss == FloorLoss(params.floorUValue, floorArea, tempDiff)
        ceilingLoss == CeilingLoss(params.ceilingUValue, ceilingArea, tempDiff)
    IN  ToWatts(wallLoss + windowLoss + floorLoss + ceilingLoss)

(***************************************************************************)
(* calculateVentilationLoss.  volume (1/VolScale) * airChangeRate (tenths) /*)
(* 3600 * AIR_DENSITY (tenths) * SPECIFIC_HEAT_AIR * tempDiff; the constant*)
(* factors are folded first so that the product stays within 32 bits.      *)
(***************************************************************************)
\* params.indoorTemp in place of tempDiff.
calculateVentilationLossIndoorOnly(room, params, tempDiff) ==
    LET \* a count of 1/(VolScale * AchScale) m3/h
        volumeFlowRate == room.volume * params.airChangeRate
        \* (1/3600) * AIR_DENSITY * SPECIFIC_HEAT_AIR for one such count, in 1/Scale W/K
        perUnit == (AIR_DENSITY * SPECIFIC_HEAT_AIR * Scale)
                      \div (SECONDS_PER_HOUR * 10 * AchScale * VolScale)
    IN  volumeFlowRate * perUnit * params.indoorTemp

\* One air change per hour whatever params.airChangeRate is.
calculateVentilationLossOneChange(room, params, tempDiff) ==
    LET \* a count of 1/(VolScale * AchScale) m3/h
        volumeFlowRate == room.volume * AchScale
        \* (1/3600) * AIR_DENSITY * SPECIFIC_HEAT_AIR for one such count, in 1/Scale W/K
        perUnit == (AIR_DENSITY * SPECIFIC_HEAT_AIR * Scale)
                      \div (SECONDS_PER_HOUR * 10 * AchScale * VolScale)
    IN  volumeFlowRate * perUnit * tempDiff

\* The same with the hourly flow taken per minute (/ 60 for / 3600).
calculateVentilationLossPerMinute(room, params, tempDiff) ==
    LET volumeFlowRate == room.volume * params.airChangeRate
        perUnit == (AIR_DENSITY * SPECIFIC_HEAT_AIR * Scale)
                      \div (60 * 10 * AchScale * VolScale)
    IN  volumeFlowRate * perUnit * tempDiff

calculateVentilationLoss(room, params, tempDiff) ==
    LET \* a count of 1/(VolScale * AchScale) m3/h
        volumeFlowRate == room.volume * params.airChangeRate
        \* (1/3600) * AIR_DENSITY * SPECIFIC_HEAT_AIR for one such count, in 1/Scale W/K
        perUnit == (AIR_DENSITY * SPECIFIC_HEAT_AIR * Scale)
                      \div (SECONDS_PER_HOUR * 10 * AchScale * VolScale)
    IN  volumeFlowRate * perUnit * tempDiff

(***************************************************************************)
(* tempDiff = params.indoorTemp - params.outdoorTemp, and the same taken   *)
(* from room.targetTemp.                                                   *)
(***************************************************************************)
TempDiffFromTarget(room, params) == room.targetTemp - params.outdoorTemp

TempDiff(room, params) == params.indoorTemp - params.outdoorTemp

(***************************************************************************)
(* totalHeatLoss = transmissionLoss + ventilationLoss, and the reported    *)
(* design load this.round(totalHeatLoss * CONSTANTS.SAFETY_FACTOR).        *)
(***************************************************************************)
\* A sign slip in the sum.
TotalHeatLossDifference(transmissionLoss, ventilationLoss) ==
    transmissionLoss - ventilationLoss

TotalHeatLoss(transmissionLoss, ventilationLoss) ==
    transmissionLoss + ventilationLoss

\* The safety factor left out.
ReportedDesignHeatLoadNoMargin(totalHeatLoss) ==
    round(totalHeatLoss, DEFAULT_PRECISION)

\* Math.floor in place of Math.round.
ReportedDesignHeatLoadTruncated(totalHeatLoss) ==
    LET unit == Scale \div Pow10(DEFAULT_PRECISION)
        d == 100 * unit
    IN  ((totalHeatLoss \div d) * SAFETY_FACTOR
           + ((totalHeatLoss % d) * SAFETY_FACTOR) \div d) * unit

ReportedDesignHeatLoad(totalHeatLoss) ==
    roundProduct(totalHeatLoss, SAFETY_FACTOR, 100, DEFAULT_PRECISION)

(***************************************************************************)
(* calculateRoomHeatLoss(room, params): what the returned promise settles  *)
(* with, given the time Date.now() advanced by during the call.            *)
(***************************************************************************)
\* A slip that lets the measured duration into the reported load.
calculateRoomHeatLossTimed(room, params, calculationTimeMs) ==
    LET thrown == validateInputs(room, params)
        tempDiff == TempDiff(room, params)
        transmissionLoss == calculateTransmissionLoss(room, params, tempDiff)
        ventilationLoss == calculateVentilationLoss(room, params, tempDiff)
        totalHeatLoss == TotalHeatLoss(transmissionLoss, ventilationLoss)
    IN  IF thrown # NoError
        THEN [kind |-> "rejected", message |-> thrown]
        ELSE [kind |-> "fulfilled",
              transmissionLoss |-> round(transmissionLoss, DEFAULT_PRECISION),
              ventilationLoss |-> round(ventilationLoss, DEFAULT_PRECISION),
              totalHeatLoss |-> round(totalHeatLoss, DEFAULT_PRECISION),
              designHeatLoad |-> ReportedDesignHeatLoad(totalHeatLoss)
                                   + calculationTimeMs * Scale,
              safetyFactor |-> SAFETY_FACTOR,
              method |-> METHOD,
              calculationTimeMs |-> calculationTimeMs]

calculateRoomHeatLoss(room, params, calculationTimeMs) ==
    LET thrown == validateInputs(room, params)
        tempDiff == TempDiff(room, params)
        transmissionLoss == calculateTransmissionLoss(room, params, tempDiff)
        ventilationLoss == calculateVentilationLoss(room, params, tempDiff)
        totalHeatLoss == TotalHeatLoss(transmissionLoss, ventilationLoss)
    IN  IF thrown # NoError
        THEN [kind |-> "rejected", message |-> thrown]
        ELSE [kind |-> "fulfilled",
              transmissionLoss |-> round(transmissionLoss, DEFAULT_PRECISION),
              ventilationLoss |-> round(ventilationLoss, DEFAULT_PRECISION),
              totalHeatLoss |-> round(totalHeatLoss, DEFAULT_PRECISION),
              designHeatLoad |-> ReportedDesignHeatLoad(totalHeatLoss),
              safetyFactor |-> SAFETY_FACTOR,
              method |-> METHOD,
              calculationTimeMs |-> calculationTimeMs]

(***************************************************************************)
(* What calculateRoomHeatLoss writes to the logger: logger.info on success,*)
(* logger.error in the catch block.  The logger's level is config.logLevel *)
(* at its default 'info', which passes both to the Console transport.      *)
(* The info line carries the losses before rounding (of its other fields,  *)
(* roomName, designHeatLoad and calculationTimeMs, the model keeps none).  *)
(***************************************************************************)
LogEntry(room, params, settled) ==
    IF settled.kind = "fulfilled"
    THEN LET tempDiff == TempDiff(room, params)
             transmissionLoss == calculateTransmissionLoss(room, params, tempDiff)
             ventilationLoss == calculateVentilationLoss(room, params, tempDiff)
         IN  [level |-> "info", message |-> "Heat loss calculated",
              roomId |-> room.id,
              transmissionLoss |-> transmissionLoss,
              ventilationLoss |-> ventilationLoss,
              totalHeatLoss |-> TotalHeatLoss(transmissionLoss, ventilationLoss)]
    ELSE [level |-> "error", message |-> "Heat loss calculation failed",
          roomId |-> room.id, error |-> settled.message]

(***************************************************************************)
(* Doubles that are not finite numbers, and finite ones.                   *)
(***************************************************************************)
Finite(v) == [k |-> "finite", v |-> v]
NaN == [k |-> "NaN", v |-> 0]
PosInf == [k |-> "Infinity", v |-> 0]
NegInf == [k |-> "-Infinity", v |-> 0]

(***************************************************************************)
(* Math.pow(tempDiff / standardTempDiff, 1.3).  tempDiff is a count of     *)
(* 1/Scale degrees; the result is a count of 1/PowScale.  A negative base  *)
(* with a fractional exponent gives NaN, a zero base 0, base 1 exactly 1;  *)
(* the other values are those of Math.pow to 8 decimals.                   *)
(***************************************************************************)
PowScale == 100000000

\* 1.3 * base in place of Math.pow(base, 1.3), for a base that is not negative.
Pow13Times(tempDiff) ==
    IF tempDiff < 0 THEN NaN
    ELSE Finite(((2 * tempDiff) \div Scale) * 13 * (PowScale \div 1000))

Pow13(tempDiff) ==
    LET halves == (2 * tempDiff) \div Scale   \* the mean of two whole degrees
    IN  IF tempDiff < 0 THEN NaN
        ELSE IF tempDiff = 0 THEN Finite(0)
        ELSE CASE halves = 2 * STANDARD_TEMP_DIFF -> Finite(PowScale)
               [] halves = 11 -> Finite(5672970)
               [] halves = 15 -> Finite(8490214)
               [] halves = 21 -> Finite(13148769)
               [] halves = 25 -> Finite(16493849)
               [] halves = 36 -> Finite(26496789)
               [] halves = 40 -> Finite(30386312)
               [] halves = 41 -> Finite(31377549)
               [] halves = 45 -> Finite(35414105)
               [] halves = 51 -> Finite(41671701)
               [] halves = 55 -> Finite(45969682)
               [] halves = 66 -> Finite(58264915)
               [] halves = 70 -> Finite(62896641)
               [] halves = 96 -> Finite(94831496)

\* floor(n * 10^k / b) by long division, without leaving 32 bits.
RECURSIVE Shift(_, _)
Shift(x, k) == IF k = 0 THEN x ELSE Shift(x * 10, k - 1)

RECURSIVE LongDiv(_, _, _)
LongDiv(n, b, k) ==
    IF k = 0 THEN n \div b
    ELSE Shift(n \div b, k) + LongDiv((n % b) * 10, b, k - 1)

(***************************************************************************)
(* calculateRadiatorSize(designHeatLoad, flowTemp, returnTemp, roomTemp).  *)
(* designHeatLoad is a count of 1/Scale W, the temperatures whole degrees. *)
(* No argument is validated.                                               *)
(***************************************************************************)
calculateRadiatorSize(designHeatLoad, flowTemp, returnTemp, roomTemp) ==
    LET meanWaterTemp == ((flowTemp + returnTemp) * Scale) \div 2
        tempDiff == meanWaterTemp - roomTemp * Scale
        correction == Pow13(tempDiff)
        unit == Scale \div Pow10(DEFAULT_PRECISION)
        \* this.round(designHeatLoad / correction): designHeatLoad / correction
        \* in units of 0.01, doubled and floored, then halved upwards
        quotient2 == LongDiv((2 * designHeatLoad) \div unit, correction.v, 8)
        requiredOutput ==
            IF correction.k = "NaN" THEN NaN
            ELSE IF correction.v = 0
                 THEN IF designHeatLoad > 0 THEN PosInf
                      ELSE IF designHeatLoad < 0 THEN NegInf
                      ELSE NaN
            ELSE Finite(((quotient2 + 1) \div 2) * unit)
    IN  [kind |-> "returned",
         requiredOutput |-> requiredOutput,
         meanWaterTemp |-> round(meanWaterTemp, DEFAULT_PRECISION),
         correction |->
             IF correction.k = "NaN" THEN NaN
             ELSE Finite(RoundHalfUp(correction.v,
                                     PowScale \div Pow10(CORRECTION_PRECISION))
                         * (Scale \div Pow10(CORRECTION_PRECISION)))]

(***************************************************************************)
(* calculateBuildingHeatLoss(rooms, params).  rooms.map starts one async   *)
(* function per room, in order; each runs calculateRoomHeatLoss to its end *)
(* (it never awaits) and settles.  Promise.all rejects with the reason of  *)
(* the first promise to reject, which is the first rejected one in input   *)
(* order, and otherwise fulfils with the values in input order; the then   *)
(* callback sums the reported values from 0 and rounds the sums.           *)
(***************************************************************************)
\* Promise.allSettled-like: the rejected rooms are dropped.
PromiseAllFulfilledOnly(promises) ==
    [kind |-> "fulfilled",
     values |-> SelectSeq(promises, LAMBDA p : p.result.kind = "fulfilled")]

\* As if the promises settled in the reverse of the input order: the reason
\* is that of the last rejected one.
PromiseAllLastRejected(promises) ==
    IF \E i \in 1..Len(promises) : promises[i].result.kind = "rejected"
    THEN LET last == CHOOSE i \in 1..Len(promises) :
                         /\ promises[i].result.kind = "rejected"
                         /\ \A j \in (i + 1)..Len(promises) :
                                promises[j].result.kind # "rejected"
         IN  [kind |-> "rejected", message |-> promises[last].result.message]
    ELSE [kind |-> "fulfilled", values |-> promises]

\* As Promise.any does on an empty list: a rejection when there is no promise.
PromiseAllEmptyRejected(promises) ==
    IF Len(promises) = 0
    THEN [kind |-> "rejected", message |-> "All promises were rejected"]
    ELSE IF \E i \in 1..Len(promises) : promises[i].result.kind = "rejected"
    THEN LET first == CHOOSE i \in 1..Len(promises) :
                         /\ promises[i].result.kind = "rejected"
                         /\ \A j \in 1..(i - 1) : promises[j].result.kind # "rejected"
         IN  [kind |-> "rejected", message |-> promises[first].result.message]
    ELSE [kind |-> "fulfilled", values |-> promises]

PromiseAll(promises) ==
    IF \E i \in 1..Len(promises) : promises[i].result.kind = "rejected"
    THEN LET first == CHOOSE i \in 1..Len(promises) :
                         /\ promises[i].result.kind = "rejected"
                         /\ \A j \in 1..(i - 1) : promises[j].result.kind # "rejected"
         IN  [kind |-> "rejected", message |-> promises[first].result.message]
    ELSE [kind |-> "fulfilled", values |-> promises]

\* The results keyed by room id: of several rooms with one id the first
\* is kept.
RECURSIVE FirstOfEachId(_)
FirstOfEachId(entries) ==
    IF entries = <<>> THEN <<>>
    ELSE LET n == Len(entries)
             before == FirstOfEachId(SubSeq(entries, 1, n - 1))
         IN  IF \E i \in 1..(n - 1) : entries[i].roomId = entries[n].roomId
             THEN before
             ELSE Append(before, entries[n])

calculateBuildingHeatLossById(rs, params, times) ==
    LET promises == [i \in 1..Len(rs) |->
                        [roomId |-> rs[i].id,
                         result |-> calculateRoomHeatLoss(rs[i], params, times[i])]]
        all == PromiseAll(promises)
        byId == FirstOfEachId(all.values)
        totalHeatLoss ==
            SumSeq([i \in 1..Len(byId) |-> byId[i].result.totalHeatLoss])
        totalDesignLoad ==
            SumSeq([i \in 1..Len(byId) |-> byId[i].result.designHeatLoad])
    IN  IF all.kind = "rejected" THEN all
        ELSE [kind |-> "fulfilled",
              rooms |-> byId,
              totalHeatLoss |-> round(totalHeatLoss, DEFAULT_PRECISION),
              totalDesignLoad |-> round(totalDesignLoad, DEFAULT_PRECISION)]

\* totalDesignLoad summed over r.result.totalHeatLoss.
calculateBuildingHeatLossSameField(rs, params, times) ==
    LET promises == [i \in 1..Len(rs) |->
                        [roomId |-> rs[i].id,
                         result |-> calculateRoomHeatLoss(rs[i], params, times[i])]]
        all == PromiseAll(promises)
        totalHeatLoss ==
            SumSeq([i \in 1..Len(all.values) |-> all.values[i].result.totalHeatLoss])
        totalDesignLoad ==
            SumSeq([i \in 1..Len(all.values) |-> all.values[i].result.totalHeatLoss])
    IN  IF all.kind = "rejected" THEN all
        ELSE [kind |-> "fulfilled",
              rooms |-> all.values,
              totalHeatLoss |-> round(totalHeatLoss, DEFAULT_PRECISION),
              totalDesignLoad |-> round(totalDesignLoad, DEFAULT_PRECISION)]

\* The reductions seeded with the first room's value instead of 0.
calculateBuildingHeatLossSeeded(rs, params, times) ==
    LET promises == [i \in 1..Len(rs) |->
                        [roomId |-> rs[i].id,
                         result |-> calculateRoomHeatLoss(rs[i], params, times[i])]]
        all == PromiseAll(promises)
        seedLoss == IF Len(all.values) = 0 THEN 0
                    ELSE all.values[1].result.totalHeatLoss
        seedLoad == IF Len(all.values) = 0 THEN 0
                    ELSE all.values[1].result.designHeatLoad
        totalHeatLoss ==
            seedLoss
              + SumSeq([i \in 1..Len(all.values) |-> all.values[i].result.totalHeatLoss])
        totalDesignLoad ==
            seedLoad
              + SumSeq([i \in 1..Len(all.values) |-> all.values[i].result.designHeatLoad])
    IN  IF all.kind = "rejected" THEN all
        ELSE [kind |-> "fulfilled",
              rooms |-> all.values,
              totalHeatLoss |-> round(totalHeatLoss, DEFAULT_PRECISION),
              totalDesignLoad |-> round(totalDesignLoad, DEFAULT_PRECISION)]

calculateBuildingHeatLoss(rs, params, times) ==
    LET promises == [i \in 1..Len(rs) |->
                        [roomId |-> rs[i].id,
                         result |-> calculateRoomHeatLoss(rs[i], params, times[i])]]
        all == PromiseAll(promises)
        totalHeatLoss ==
            SumSeq([i \in 1..Len(all.values) |-> all.values[i].result.totalHeatLoss])
        totalDesignLoad ==
            SumSeq([i \in 1..Len(all.values) |-> all.values[i].result.designHeatLoad])
    IN  IF all.kind = "rejected" THEN all
        ELSE [kind |-> "fulfilled",
              rooms |-> all.values,
              totalHeatLoss |-> round(totalHeatLoss, DEFAULT_PRECISION),
              totalDesignLoad |-> round(totalDesignLoad, DEFAULT_PRECISION)]

\* The log lines of one calculateBuildingHeatLoss call, in the order written.
BuildingLog(rs, params, times) ==
    [i \in 1..Len(rs) |-> LogEntry(rs[i], params, calculateRoomHeatLoss(rs[i], params, times[i]))]

\* A value the code rounds lies exactly halfway between two multiples of
\* 0.01.  There the double computation lands on either side, depending on
\* the representation error of its operands; the inputs of the model are
\* those for which the exact value decides the rounding.
RoundingTie(room, params) ==
    LET tempDiff == TempDiff(room, params)
        transmissionLoss == calculateTransmissionLoss(room, params, tempDiff)
        ventilationLoss == calculateVentilationLoss(room, params, tempDiff)
        totalHeatLoss == TotalHeatLoss(transmissionLoss, ventilationLoss)
        unit == Scale \div Pow10(DEFAULT_PRECISION)
        Tie(n, d) == (2 * n + d) % (2 * d) = 0
    IN  /\ validateInputs(room, params) = NoError
        /\ \/ Tie(transmissionLoss, unit)
           \/ Tie(ventilationLoss, unit)
           \/ Tie(totalHeatLoss, unit)
           \/ Tie((totalHeatLoss % (100 * unit)) * SAFETY_FACTOR, 100 * unit)

\* The same for the design load alone: totalHeatLoss * 1.15 lies exactly
\* halfway.  1.15 is not a double, so the product the code rounds is never
\* the halfway value itself and lands on either side of it.
DesignRoundingTie(room, params) ==
    LET tempDiff == TempDiff(room, params)
        transmissionLoss == calculateTransmissionLoss(room, params, tempDiff)
        ventilationLoss == calculateVentilationLoss(room, params, tempDiff)
        totalHeatLoss == TotalHeatLoss(transmissionLoss, ventilationLoss)
        unit == Scale \div Pow10(DEFAULT_PRECISION)
    IN  /\ validateInputs(room, params) = NoError
        /\ ((totalHeatLoss % (100 * unit)) * SAFETY_FACTOR * 2 + 100 * unit)
              % (200 * unit) = 0

(***************************************************************************)
(* errorHandler(err, req, res, next), the last middleware of the API.  An  *)
(* error is a record of name, message and stack, with statusCode when the  *)
(* error carries one (ApiError.statusCode is optional); nodeEnv is         *)
(* process.env.NODE_ENV at the time of the call.  What is kept of the      *)
(* answer is the status of the response and the JSON body.                 *)
(***************************************************************************)
\* err.statusCode ?? 500: only a missing statusCode falls back to 500.
StatusCodeNullish(err) ==
    IF "statusCode" \in DOMAIN err THEN err.statusCode ELSE 500

\* err.statusCode || 500: undefined and 0 are falsy.
StatusCodeOf(err) ==
    IF "statusCode" \in DOMAIN err /\ err.statusCode # 0 THEN err.statusCode
    ELSE 500

\* err.message || 'Internal Server Error'
MessageOf(err) == IF err.message = "" THEN "Internal Server Error" ELSE err.message

\* statusCode >= 500 ? 'Internal Server Error' : err.name || 'Error'
ErrorLabel(err, statusCode) ==
    IF statusCode >= 500 THEN "Internal Server Error"
    ELSE IF err.name = "" THEN "Error" ELSE err.name

\* The message hidden in production whatever the status.
ResponseMessageAlwaysHidden(statusCode, message, nodeEnv) ==
    IF nodeEnv = "production" THEN "An unexpected error occurred" ELSE message

\* statusCode >= 500 && process.env.NODE_ENV === 'production' ? ... : message
ResponseMessage(statusCode, message, nodeEnv) ==
    IF statusCode >= 500 /\ nodeEnv = "production"
    THEN "An unexpected error occurred"
    ELSE message

errorHandler(err, nodeEnv) ==
    LET statusCode == StatusCodeOf(err)
        message == MessageOf(err)
        body == [error |-> ErrorLabel(err, statusCode),
                 message |-> ResponseMessage(statusCode, message, nodeEnv),
                 statusCode |-> statusCode]
    IN  [kind |-> "response",
         status |-> statusCode,
         body |-> IF nodeEnv = "development"
                  THEN [error |-> body.error, message |-> body.message,
                        statusCode |-> body.statusCode, stack |-> err.stack]
                  ELSE body]

\* logger.error('API Error', ...): the message and the status (the stack and
\* the url, method and ip of the request are not kept).
ErrorHandlerLog(err) ==
    [level |-> "error", message |-> "API Error", error |-> err.message,
     statusCode |-> StatusCodeOf(err)]

(***************************************************************************)
(* STATE.  The service itself is stateless; the state is the caller's: the *)
(* inputs it holds, what the last call returned, the numeric outcome it    *)
(* has seen for each call so far, and the logger's output.                 *)
(***************************************************************************)
VARIABLES
    rooms,          \* the caller's rooms (a sequence of Room)
    params,         \* the shared CalculationParams
    radArgs,        \* arguments for calculateRadiatorSize
    remaining,      \* calls the caller still makes
    ret,            \* the last call and the value it returned / settled with
    seenRoom,       \* i |-> outcome of calculateRoomHeatLoss(rooms[i], params)
    seenBuilding,   \* order |-> outcome of calculateBuildingHeatLoss on rooms in that order
    seenRadiator,   \* outcome of calculateRadiatorSize(radArgs)
    log             \* lines written through logger, oldest first

vars == <<rooms, params, radArgs, remaining, ret, seenRoom, seenBuilding,
          seenRadiator, log>>

NoCall == [kind |-> "none"]

\* An outcome without the measured duration(s).
Numeric(o) ==
    IF o.kind # "fulfilled" THEN o
    ELSE IF "rooms" \in DOMAIN o
         THEN [o EXCEPT !.rooms = [i \in 1..Len(o.rooms) |->
                  [o.rooms[i] EXCEPT !.result.calculationTimeMs = 0]]]
         ELSE [o EXCEPT !.calculationTimeMs = 0]

\* The lists a caller can pass: rooms picked by index, none twice, in any order.
Orders(n) ==
    { o \in UNION { [1..k -> 1..n] : k \in 0..n } :
        \A a, b \in DOMAIN o : a # b => o[a] # o[b] }

Pick(order) == [k \in 1..Len(order) |-> rooms[order[k]]]

(***************************************************************************)
(* Inputs.  RefRoom and RefParams are the test's mockRoom and mockParams   *)
(* (heatLoss.service.test.ts) for a square room of side 4.5 m: area 20.25  *)
(* m2 in place of 20 m2, and volume 50.625 m3 (area * ceilingHeight) in    *)
(* place of 50 m3.                                                         *)
(***************************************************************************)
RefRoom ==
    [id |-> "room-1", name |-> "Living Room", area |-> 324, volume |-> 405,
     ceilingHeight |-> 10, exteriorWalls |-> 2, windowArea |-> 64,
     doorCount |-> 1, targetTemp |-> 20]

RefParams ==
    [outdoorTemp |-> -3, indoorTemp |-> 20, wallUValue |-> 30,
     windowUValue |-> 140, floorUValue |-> 25, ceilingUValue |-> 16,
     airChangeRate |-> 5]

RefRadArgs ==
    [designHeatLoad |-> 2000 * Scale, flowTemp |-> 75, returnTemp |-> 65,
     roomTemp |-> 20]

InitCaller(budget) ==
    /\ \A i \in 1..Len(rooms) : ~RoundingTie(rooms[i], params)
    /\ remaining = budget
    /\ ret = [op |-> "none", arg |-> <<>>, result |-> NoCall]
    /\ seenRoom = [i \in 1..Len(rooms) |-> NoCall]
    /\ seenBuilding = [o \in Orders(Len(rooms)) |-> NoCall]
    /\ seenRadiator = NoCall
    /\ log = <<>>

\* Validation: one small room, every rule passed and failed, at its boundaries.
ValidationRooms ==
    { [RefRoom EXCEPT !.area = a, !.volume = v, !.ceilingHeight = h] :
        a \in {0, 16}, v \in {0, 9}, h \in {0, 4} }

ValidationParams ==
    [outdoorTemp : {-21, -20, 15, 16}, indoorTemp : {14, 15, 25, 26},
     wallUValue : {0, 1000, 1001}, windowUValue : {0, 1, 1001},
     floorUValue : {0, 1000}, ceilingUValue : {1, 1001},
     airChangeRate : {-1, 0, 100, 101}]

InitValidation ==
    /\ rooms \in { <<r>> : r \in ValidationRooms }
    /\ params \in ValidationParams
    /\ radArgs = RefRadArgs
    /\ InitCaller(1)

\* Numbers: one room, accepted inputs from tiny to ordinary losses.
NumericRooms ==
    { [RefRoom EXCEPT !.area = a, !.volume = v, !.exteriorWalls = e,
                      !.windowArea = w] :
        a \in {1, 16, 144, 324}, v \in {1, 405}, e \in {0, 2, 3}, w \in {0, 9, 64} }

NumericParams ==
    [outdoorTemp : {-3, 13}, indoorTemp : {15, 20},
     wallUValue : {1, 30, 55}, windowUValue : {140},
     floorUValue : {2, 70}, ceilingUValue : {12, 16},
     airChangeRate : {0, 3, 5}]

InitNumeric ==
    /\ rooms \in { <<r>> : r \in NumericRooms }
    /\ params \in NumericParams
    /\ radArgs = RefRadArgs
    /\ InitCaller(1)

\* Geometry: the number of exterior walls below, within and above 0..4, and
\* windows smaller and larger than the walls (4 * sqrt(area) * ceilingHeight is
\* 10 m2 for 1 m2 of floor and 45 m2 for 20.25 m2); one room has no floor area.
GeometryRooms ==
    { [RefRoom EXCEPT !.area = a, !.exteriorWalls = e, !.windowArea = w] :
        a \in {0, 16, 324}, e \in {-1, 0, 4, 5, 8}, w \in {-16, 0, 64, 400, 1600} }

GeometryParams ==
    { [RefParams EXCEPT !.outdoorTemp = o, !.wallUValue = u] :
        o \in {-3, 13}, u \in {30, 55} }

InitGeometry ==
    /\ rooms \in { <<r>> : r \in GeometryRooms }
    /\ params \in GeometryParams
    /\ radArgs = RefRadArgs
    /\ InitCaller(1)

\* Rounding: inputs that are binary fractions (U-values of 0.25, 0.5 and 0.75
\* W/m2K, areas of 1 and 4 m2, no ventilation), for which every operation of
\* the transmission sum is exact in doubles, so that a loss exactly halfway
\* between two hundredths (3.125 W) is that value in the code as well; and
\* the inputs of the numeric family.
DyadicRooms ==
    { [RefRoom EXCEPT !.area = a, !.exteriorWalls = e, !.windowArea = w] :
        a \in {16, 64}, e \in {0, 1, 2}, w \in {0, 16} }

DyadicParams ==
    [outdoorTemp : {10, 14}, indoorTemp : {15},
     wallUValue : {25, 50}, windowUValue : {50, 75},
     floorUValue : {25, 75}, ceilingUValue : {50},
     airChangeRate : {0}]

InitRounding ==
    /\ \/ /\ rooms \in { <<r>> : r \in DyadicRooms }
          /\ params \in DyadicParams
          /\ ~DesignRoundingTie(rooms[1], params)
       \/ /\ rooms \in { <<r>> : r \in NumericRooms }
          /\ params \in NumericParams
          /\ ~RoundingTie(rooms[1], params)
    /\ radArgs = RefRadArgs
    /\ remaining = 1
    /\ ret = [op |-> "none", arg |-> <<>>, result |-> NoCall]
    /\ seenRoom = [i \in 1..Len(rooms) |-> NoCall]
    /\ seenBuilding = [o \in Orders(Len(rooms)) |-> NoCall]
    /\ seenRadiator = NoCall
    /\ log = <<>>

\* Radiator sizing: loads of either sign, mean water temperature below, at
\* and above the room temperature.  A caller may omit trailing arguments:
\* the record then lacks the field.  Loads that are not a multiple of 0.01 W
\* (1234.567, 0.004 and -3.14159375 W) are sized with the temperatures
\* omitted, where the correction is exactly 1.
RadiatorLoads ==
    {-100 * Scale, 0, Scale \div 100, 60791 * (Scale \div 100), 2000 * Scale}

FineRadiatorLoads == {39506144, 128, -100531}

RadiatorArgs ==
    [designHeatLoad : RadiatorLoads,
     flowTemp : {20, 45, 75}, returnTemp : {20, 35, 65}, roomTemp : {20, 22}]
      \cup [designHeatLoad : RadiatorLoads,
            flowTemp : {20, 45, 75}, returnTemp : {20, 35, 65}]
      \cup [designHeatLoad : RadiatorLoads \cup FineRadiatorLoads]

InitRadiator ==
    /\ rooms = <<RefRoom>>
    /\ params = RefParams
    /\ radArgs \in RadiatorArgs
    /\ InitCaller(1)

\* A session: a building of up to MaxRooms rooms, valid and invalid, and up
\* to MaxCalls calls on it and on its rooms.
SmallRoom ==
    [id |-> "room-2", name |-> "Hall", area |-> 144, volume |-> 180,
     ceilingHeight |-> 10, exteriorWalls |-> 3, windowArea |-> 9,
     doorCount |-> 2, targetTemp |-> 18]

StudyRoom ==
    [RefRoom EXCEPT !.id = "room-5", !.name = "Study", !.doorCount = 3,
                    !.targetTemp = 16]

SessionRooms ==
    { RefRoom, SmallRoom, StudyRoom,
      [RefRoom EXCEPT !.id = "room-3", !.area = 0],
      [SmallRoom EXCEPT !.id = "room-4", !.volume = 0] }

SessionParams ==
    { RefParams,
      [RefParams EXCEPT !.outdoorTemp = 13, !.wallUValue = 55, !.floorUValue = 70,
                        !.airChangeRate = 0],
      [RefParams EXCEPT !.indoorTemp = -5] }

InitSession ==
    /\ rooms \in UNION { [1..n -> SessionRooms] : n \in 0..MaxRooms }
    /\ params \in SessionParams
    /\ radArgs = RefRadArgs
    /\ InitCaller(MaxCalls)

\* The API: the living room or a room without floor area, with the params of
\* a session; errors other routes raise, with and without a statusCode, and
\* the values of NODE_ENV ("" when it is not set).
ApiRooms == { RefRoom, [RefRoom EXCEPT !.id = "room-3", !.area = 0] }

ApiErrors ==
    [name : {"NotFoundError", ""},
     message : {"Project not found", ""},
     stack : {"Error: at <anonymous>"},
     statusCode : {0, 404, 499, 500, 503}]
    \cup
    [name : {"NotFoundError", ""},
     message : {"Project not found", ""},
     stack : {"Error: at <anonymous>"}]

NodeEnvs == {"production", "development", ""}

InitApi ==
    /\ rooms \in { <<r>> : r \in ApiRooms }
    /\ params \in SessionParams
    /\ radArgs = RefRadArgs
    /\ InitCaller(1)

(***************************************************************************)
(* The arguments calculateRadiatorSize runs with: a parameter the caller   *)
(* omits takes its default.                                                *)
(***************************************************************************)
FlowTemp ==
    IF "flowTemp" \in DOMAIN radArgs THEN radArgs.flowTemp ELSE DEFAULT_FLOW_TEMP

ReturnTemp ==
    IF "returnTemp" \in DOMAIN radArgs THEN radArgs.returnTemp
    ELSE DEFAULT_RETURN_TEMP

RoomTemp ==
    IF "roomTemp" \in DOMAIN radArgs THEN radArgs.roomTemp ELSE DEFAULT_ROOM_TEMP

(***************************************************************************)
(* The caller's calls.                                                     *)
(***************************************************************************)
CallRoom(i) ==
    /\ remaining > 0
    /\ \E t \in ElapsedMs :
         LET settled == calculateRoomHeatLoss(rooms[i], params, t)
         IN  /\ ret' = [op |-> "calculateRoomHeatLoss", arg |-> <<i>>,
                        result |-> settled]
             /\ seenRoom' = [seenRoom EXCEPT ![i] = Numeric(settled)]
             /\ log' = Append(log, LogEntry(rooms[i], params, settled))
    /\ remaining' = remaining - 1
    /\ UNCHANGED <<rooms, params, radArgs, seenBuilding, seenRadiator>>

CallBuilding(order) ==
    /\ remaining > 0
    /\ \E times \in [1..Len(order) -> ElapsedMs] :
         LET settled == calculateBuildingHeatLoss(Pick(order), params, times)
         IN  /\ ret' = [op |-> "calculateBuildingHeatLoss", arg |-> order,
                        result |-> settled]
             /\ seenBuilding' = [seenBuilding EXCEPT ![order] = Numeric(settled)]
             /\ log' = log \o BuildingLog(Pick(order), params, times)
    /\ remaining' = remaining - 1
    /\ UNCHANGED <<rooms, params, radArgs, seenRoom, seenRadiator>>

CallRadiator ==
    /\ remaining > 0
    /\ LET returned == calculateRadiatorSize(radArgs.designHeatLoad,
                           FlowTemp, ReturnTemp, RoomTemp)
       IN  /\ ret' = [op |-> "calculateRadiatorSize", arg |-> <<>>,
                      result |-> returned]
           /\ seenRadiator' = returned
    /\ remaining' = remaining - 1
    /\ UNCHANGED <<rooms, params, radArgs, seenRoom, seenBuilding, log>>

\* What reaches errorHandler: the Error a rejected call of the service threw
\* (new Error(message): no statusCode), or an error of another route.
ThrownErrors ==
    ApiErrors \cup
    (IF ret.result.kind = "rejected"
     THEN { [name |-> "Error", message |-> ret.result.message,
             stack |-> "Error: at HeatLossService"] }
     ELSE {})

\* The handler runs after a call of the service or on the error of another
\* route, MaxErrors times in a behaviour.
HandleError ==
    /\ Cardinality({ i \in 1..Len(log) : log[i].message = "API Error" }) < MaxErrors
    /\ \E err \in ThrownErrors, nodeEnv \in NodeEnvs :
         /\ ret' = [op |-> "errorHandler",
                    arg |-> [err |-> err, nodeEnv |-> nodeEnv],
                    result |-> errorHandler(err, nodeEnv)]
         /\ log' = Append(log, ErrorHandlerLog(err))
    /\ UNCHANGED <<rooms, params, radArgs, remaining, seenRoom, seenBuilding,
                   seenRadiator>>

Next ==
    \/ \E i \in 1..Len(rooms) : CallRoom(i)
    \/ \E order \in Orders(Len(rooms)) : CallBuilding(order)
    \/ CallRadiator

NextApi ==
    \/ \E i \in 1..Len(rooms) : CallRoom(i)
    \/ \E order \in Orders(Len(rooms)) : CallBuilding(order)
    \/ CallRadiator
    \/ HandleError

SpecValidation == InitValidation /\ [][Next]_vars
SpecNumeric == InitNumeric /\ [][Next]_vars
SpecGeometry == InitGeometry /\ [][Next]_vars
SpecRounding == InitRounding /\ [][Next]_vars
SpecApi == InitApi /\ [][NextApi]_vars
SpecRadiator == InitRadiator /\ [][Next]_vars
SpecSession == InitSession /\ [][Next]_vars

(***************************************************************************)
(* PROPERTIES.  The rules below are written from the documentation of the  *)
(* service, not from validateInputs, in the units of the model.            *)
(***************************************************************************)
RoomCallSettled == ret.op = "calculateRoomHeatLoss"
BuildingCallSettled == ret.op = "calculateBuildingHeatLoss"
RadiatorCallReturned == ret.op = "calculateRadiatorSize"

CalledRoom == rooms[ret.arg[1]]

UValueInRange(u) == u > 0 /\ u <= 10 * UScale

InputsValid(r, p) ==
    /\ r.area > 0
    /\ r.volume > 0
    /\ r.ceilingHeight > 0
    /\ p.outdoorTemp >= -20 /\ p.outdoorTemp <= 15
    /\ p.indoorTemp >= 15 /\ p.indoorTemp <= 25
    /\ p.indoorTemp > p.outdoorTemp
    /\ UValueInRange(p.wallUValue)
    /\ UValueInRange(p.windowUValue)
    /\ UValueInRange(p.floorUValue)
    /\ UValueInRange(p.ceilingUValue)
    /\ p.airChangeRate >= 0 /\ p.airChangeRate <= 10 * AchScale

ResultFields ==
    {"kind", "transmissionLoss", "ventilationLoss", "totalHeatLoss",
     "designHeatLoad", "safetyFactor", "method", "calculationTimeMs"}

\* C1: calculateRoomHeatLoss rejects if and only if at least one rule is
\* violated (area, volume, ceilingHeight > 0; -20 <= outdoorTemp <= 15;
\* 15 <= indoorTemp <= 25; indoorTemp > outdoorTemp; every U-value in
\* (0, 10]; airChangeRate in [0, 10]); the boundary values are accepted, and
\* a rejected call carries an error and no CalculationResult.
C1_RejectsIffRuleViolated ==
    RoomCallSettled =>
        /\ ret.result.kind = "rejected" <=> ~InputsValid(CalledRoom, params)
        /\ ret.result.kind = "rejected" => DOMAIN ret.result = {"kind", "message"}
        /\ ret.result.kind # "rejected" =>
              /\ ret.result.kind = "fulfilled"
              /\ DOMAIN ret.result = ResultFields

\* A call accepted with every bounded parameter on a boundary the rules include.
C1_BoundariesAccepted ==
    /\ RoomCallSettled
    /\ ret.result.kind = "fulfilled"
    /\ params.outdoorTemp = -20
    /\ params.indoorTemp = 25
    /\ params.wallUValue = 10 * UScale
    /\ params.airChangeRate = 10 * AchScale

\* The documented rules in their documented order, each with its message.
RuleMessages ==
    << "Room area must be greater than 0",
       "Room volume must be greater than 0",
       "Ceiling height must be greater than 0",
       "Outdoor temperature too low (min: -20°C)",
       "Outdoor temperature too high (max: 15°C)",
       "Indoor temperature too low (min: 15°C)",
       "Indoor temperature too high (max: 25°C)",
       "Indoor temperature must be greater than outdoor temperature",
       "Invalid wall U-value (must be 0-10 W/m²K)",
       "Invalid window U-value (must be 0-10 W/m²K)",
       "Invalid floor U-value (must be 0-10 W/m²K)",
       "Invalid ceiling U-value (must be 0-10 W/m²K)",
       "Invalid air change rate (must be 0-10 ACH)" >>

RuleViolated(k, r, p) ==
    CASE k = 1 -> ~(r.area > 0)
      [] k = 2 -> ~(r.volume > 0)
      [] k = 3 -> ~(r.ceilingHeight > 0)
      [] k = 4 -> p.outdoorTemp < -20
      [] k = 5 -> p.outdoorTemp > 15
      [] k = 6 -> p.indoorTemp < 15
      [] k = 7 -> p.indoorTemp > 25
      [] k = 8 -> ~(p.indoorTemp > p.outdoorTemp)
      [] k = 9 -> ~UValueInRange(p.wallUValue)
      [] k = 10 -> ~UValueInRange(p.windowUValue)
      [] k = 11 -> ~UValueInRange(p.floorUValue)
      [] k = 12 -> ~UValueInRange(p.ceilingUValue)
      [] k = 13 -> ~(p.airChangeRate >= 0 /\ p.airChangeRate <= 10 * AchScale)

ViolatedRules(r, p) == { k \in 1..Len(RuleMessages) : RuleViolated(k, r, p) }

FirstViolated(r, p) ==
    CHOOSE k \in ViolatedRules(r, p) : \A j \in ViolatedRules(r, p) : k <= j

\* C2: when several rules are violated at once, the error message of a
\* rejected calculateRoomHeatLoss call is that of the first violated rule in
\* the order area, volume, ceilingHeight, outdoor low, outdoor high, indoor
\* low, indoor high, indoor <= outdoor, wall, window, floor, ceiling U-value,
\* air change rate; area <= 0 always reports the area message.
C2_FirstViolatedRuleReported ==
    (RoomCallSettled /\ ret.result.kind = "rejected") =>
        /\ ViolatedRules(CalledRoom, params) # {}
        /\ ret.result.message = RuleMessages[FirstViolated(CalledRoom, params)]
        /\ CalledRoom.area <= 0 =>
              ret.result.message = "Room area must be greater than 0"

\* A rejected call whose inputs violate the volume rule and four later rules.
C2_SeveralRulesViolated ==
    /\ RoomCallSettled
    /\ ret.result.kind = "rejected"
    /\ {2, 5, 7, 9, 13} \subseteq ViolatedRules(CalledRoom, params)
    /\ 1 \notin ViolatedRules(CalledRoom, params)
    /\ ret.result.message = "Room volume must be greater than 0"

PickedRooms == [k \in 1..Len(ret.arg) |-> rooms[ret.arg[k]]]

\* C3: calculateBuildingHeatLoss fails as a whole: if any room of the list
\* is invalid (or the params are invalid and the list is not empty) the call
\* rejects with a validation error and returns no rooms and no totals, even
\* when other rooms are valid.
C3_BuildingFailsAsAWhole ==
    (BuildingCallSettled
       /\ \E k \in 1..Len(ret.arg) : ~InputsValid(PickedRooms[k], params)) =>
        /\ ret.result.kind = "rejected"
        /\ DOMAIN ret.result = {"kind", "message"}
        /\ \E k \in 1..Len(RuleMessages) : ret.result.message = RuleMessages[k]

\* A rejected building call on a valid room followed by an invalid one.
C3_ValidRoomDiscarded ==
    /\ BuildingCallSettled
    /\ Len(ret.arg) = 2
    /\ InputsValid(PickedRooms[1], params)
    /\ ~InputsValid(PickedRooms[2], params)
    /\ ret.result.kind = "rejected"

\* C4: calculateRadiatorSize rejects with the error 'invalid temperature
\* configuration' whenever (flowTemp + returnTemp) / 2 - roomTemp <= 0, so it
\* never returns NaN or an infinite requiredOutput or correction.
C4_RadiatorRejectsNonPositiveDifference ==
    RadiatorCallReturned =>
        /\ FlowTemp + ReturnTemp <= 2 * RoomTemp =>
              /\ ret.result.kind = "rejected"
              /\ ret.result.message = "invalid temperature configuration"
        /\ ret.result.kind = "returned" =>
              /\ ret.result.requiredOutput.k = "finite"
              /\ ret.result.correction.k = "finite"

\* A reported value (a multiple of 0.01) as a count of hundredths.
Hundredths(x) == x \div (Scale \div 100)

Abs(x) == IF x < 0 THEN -x ELSE x

RoomCallFulfilled == RoomCallSettled /\ ret.result.kind = "fulfilled"

\* C5: in every result of calculateRoomHeatLoss the reported totalHeatLoss is
\* within 0.01 of the sum of the reported transmissionLoss and
\* ventilationLoss.
C5_TotalIsSumOfParts ==
    RoomCallFulfilled =>
        Abs(Hundredths(ret.result.totalHeatLoss)
              - (Hundredths(ret.result.transmissionLoss)
                   + Hundredths(ret.result.ventilationLoss))) <= 1

\* A result whose reported total differs from the sum of the reported parts.
C5_TotalOffByOneHundredth ==
    /\ RoomCallFulfilled
    /\ ret.result.ventilationLoss > 0
    /\ Abs(Hundredths(ret.result.totalHeatLoss)
             - (Hundredths(ret.result.transmissionLoss)
                  + Hundredths(ret.result.ventilationLoss))) = 1

\* 10000 * (designHeatLoad - 1.15 * totalHeatLoss) of the reported values.
DesignOffset ==
    100 * Hundredths(ret.result.designHeatLoad)
      - 115 * Hundredths(ret.result.totalHeatLoss)

\* C6 (as documented): the reported designHeatLoad equals the reported
\* totalHeatLoss * 1.15 within 0.01.
C6_DesignWithinOneHundredth ==
    RoomCallFulfilled => Abs(DesignOffset) <= 100

\* C6: the reported designHeatLoad equals the reported totalHeatLoss * 1.15
\* within 0.0105: it is the rounding of the unrounded total times 1.15.
C6_DesignWithinRoundingOfBoth ==
    RoomCallFulfilled => Abs(DesignOffset) <= 105

\* A result whose design load is 0.0105 away from 1.15 times its total.
C6_DesignAtFullOffset ==
    RoomCallFulfilled /\ Abs(DesignOffset) = 105

\* C7 (as documented): designHeatLoad > totalHeatLoss whenever
\* totalHeatLoss > 0.
C7_DesignExceedsTotal ==
    (RoomCallFulfilled /\ ret.result.totalHeatLoss > 0) =>
        ret.result.designHeatLoad > ret.result.totalHeatLoss

\* C7: designHeatLoad >= totalHeatLoss whenever totalHeatLoss > 0, and
\* designHeatLoad > totalHeatLoss whenever totalHeatLoss >= 0.08.
C7_DesignExceedsTotalFromEightHundredths ==
    RoomCallFulfilled =>
        /\ ret.result.totalHeatLoss > 0 =>
              ret.result.designHeatLoad >= ret.result.totalHeatLoss
        /\ Hundredths(ret.result.totalHeatLoss) >= 8 =>
              ret.result.designHeatLoad > ret.result.totalHeatLoss

\* A result with a total of at least 0.08 W whose design load is 0.01 W more.
C7_SmallestMargin ==
    /\ RoomCallFulfilled
    /\ Hundredths(ret.result.totalHeatLoss) >= 8
    /\ Hundredths(ret.result.designHeatLoad)
         = Hundredths(ret.result.totalHeatLoss) + 1

BuildingFulfilled(order) == seenBuilding[order].kind = "fulfilled"

EntryLosses(b) == [k \in 1..Len(b.rooms) |-> b.rooms[k].result.totalHeatLoss]
EntryLoads(b) == [k \in 1..Len(b.rooms) |-> b.rooms[k].result.designHeatLoad]

\* C8: the building result has one entry per room, each carrying the room's
\* id and exactly the CalculationResult that calculateRoomHeatLoss returns
\* for that room with the same params (calculationTimeMs aside), and
\* totalHeatLoss and totalDesignLoad are the sums of the entries'
\* totalHeatLoss and designHeatLoad rounded to 2 decimals.
C8_BuildingEntriesAreRoomResults ==
    \A order \in Orders(Len(rooms)) :
        BuildingFulfilled(order) =>
            LET b == seenBuilding[order]
            IN  /\ Len(b.rooms) = Len(order)
                /\ \A k \in 1..Len(order) :
                      /\ b.rooms[k].roomId = rooms[order[k]].id
                      /\ seenRoom[order[k]] # NoCall =>
                            b.rooms[k].result = seenRoom[order[k]]
                /\ b.totalHeatLoss = SumSeq(EntryLosses(b))
                /\ b.totalDesignLoad = SumSeq(EntryLoads(b))
                /\ b.totalHeatLoss % (Scale \div 100) = 0
                /\ b.totalDesignLoad % (Scale \div 100) = 0

\* A building of two different rooms computed, and each room on its own too.
C8_BuildingAndBothRoomsCalled ==
    /\ Len(rooms) = 2
    /\ rooms[1] # rooms[2]
    /\ BuildingFulfilled(<<2, 1>>)
    /\ seenRoom[1] # NoCall
    /\ seenRoom[2] # NoCall

Range(f) == { f[k] : k \in DOMAIN f }

\* C9: the result of calculateBuildingHeatLoss does not depend on the order
\* of the rooms (a permuted list gives the same totals and the same result
\* for each roomId), and the totals of a list equal the sum of the totals of
\* the parts of any partition of it, within 0.01.
C9_OrderAndPartitionIndependent ==
    \A o1 \in Orders(Len(rooms)) :
        BuildingFulfilled(o1) =>
            \A o2 \in Orders(Len(rooms)) :
                BuildingFulfilled(o2) =>
                    LET b1 == seenBuilding[o1]
                        b2 == seenBuilding[o2]
                    IN  /\ Range(o1) = Range(o2) =>
                              /\ b1.totalHeatLoss = b2.totalHeatLoss
                              /\ b1.totalDesignLoad = b2.totalDesignLoad
                              /\ \A k1 \in 1..Len(o1), k2 \in 1..Len(o2) :
                                    b1.rooms[k1].roomId = b2.rooms[k2].roomId =>
                                        b1.rooms[k1].result = b2.rooms[k2].result
                        /\ \A o \in Orders(Len(rooms)) :
                              (/\ BuildingFulfilled(o)
                               /\ Range(o1) \cup Range(o2) = Range(o)
                               /\ Range(o1) \cap Range(o2) = {}) =>
                                  /\ Abs(Hundredths(seenBuilding[o].totalHeatLoss)
                                           - (Hundredths(b1.totalHeatLoss)
                                                + Hundredths(b2.totalHeatLoss))) <= 1
                                  /\ Abs(Hundredths(seenBuilding[o].totalDesignLoad)
                                           - (Hundredths(b1.totalDesignLoad)
                                                + Hundredths(b2.totalDesignLoad))) <= 1

\* Two different rooms computed as a building in both orders.
C9_BothOrdersCalled ==
    /\ Len(rooms) = 2
    /\ rooms[1] # rooms[2]
    /\ BuildingFulfilled(<<1, 2>>)
    /\ BuildingFulfilled(<<2, 1>>)
    /\ seenBuilding[<<1, 2>>].totalHeatLoss > 0

\* One call leaves every outcome seen so far as it was, the outcome of a
\* repeated call included, and equal inputs have equal outcomes.
SameOutcomes ==
    /\ \A i \in 1..Len(rooms) :
          seenRoom[i] # NoCall => seenRoom'[i] = seenRoom[i]
    /\ \A order \in Orders(Len(rooms)) :
          seenBuilding[order] # NoCall => seenBuilding'[order] = seenBuilding[order]
    /\ seenRadiator # NoCall => seenRadiator' = seenRadiator
    /\ \A i, j \in 1..Len(rooms) :
          (rooms[i] = rooms[j] /\ seenRoom'[i] # NoCall /\ seenRoom'[j] # NoCall) =>
              seenRoom'[i] = seenRoom'[j]

\* C10: calculateRoomHeatLoss, calculateBuildingHeatLoss and
\* calculateRadiatorSize are deterministic: repeating a call with identical
\* inputs yields identical numeric outputs (calculationTimeMs aside), whatever
\* other calls were made in between.
C10_Deterministic == [][SameOutcomes]_vars

\* A room computed, the radiator sized, and the same room computed again with
\* a different measured duration.
C10_RoomComputedAgain ==
    /\ RoomCallFulfilled
    /\ ret.result.calculationTimeMs = 1
    /\ Len(log) = 2
    /\ log[1].roomId = CalledRoom.id
    /\ seenRadiator # NoCall

CalculatorCall(op) ==
    op \in {"calculateRoomHeatLoss", "calculateBuildingHeatLoss"}

\* C11: calculateRoomHeatLoss (on success and on rejection) and
\* calculateBuildingHeatLoss have no side effects: they write nothing to any
\* log or external sink; their only observable effect is the returned result
\* or the rejection.
C11_CalculatorWritesNoLog ==
    [][CalculatorCall(ret'.op) => log' = log]_vars

RadiatorAtReference == FlowTemp = 75 /\ ReturnTemp = 65 /\ RoomTemp = 20

\* C12: at the reference operating condition flowTemp = 75, returnTemp = 65,
\* roomTemp = 20 (also the defaults when these arguments are omitted)
\* calculateRadiatorSize returns meanWaterTemp = 70, correction = 1 and
\* requiredOutput equal to designHeatLoad rounded to 2 decimals (the nearest
\* multiple of 0.01, a half going up), for every designHeatLoad; in general
\* meanWaterTemp is (flowTemp + returnTemp) / 2.
C12_RadiatorReferenceCondition ==
    RadiatorCallReturned =>
        /\ ret.result.kind = "returned"
        /\ 2 * ret.result.meanWaterTemp = (FlowTemp + ReturnTemp) * Scale
        /\ RadiatorAtReference =>
              /\ ret.result.meanWaterTemp = 70 * Scale
              /\ ret.result.correction = Finite(Scale)
              /\ ret.result.requiredOutput.k = "finite"
              /\ LET output == ret.result.requiredOutput.v
                     load == radArgs.designHeatLoad
                 IN  /\ output % (Scale \div 100) = 0
                     /\ 2 * (output - load) <= Scale \div 100
                     /\ 2 * (load - output) < Scale \div 100

\* A load of 1234.567 W sized with the three temperatures omitted: 1234.57 W.
C12_DefaultsRoundedLoad ==
    /\ RadiatorCallReturned
    /\ DOMAIN radArgs = {"designHeatLoad"}
    /\ radArgs.designHeatLoad = 39506144
    /\ ret.result.requiredOutput = Finite(123457 * (Scale \div 100))

(***************************************************************************)
(* Comparisons of the settled call with the same call on another input.    *)
(***************************************************************************)
LastLogged == log[Len(log)]

UValueFields == {"wallUValue", "windowUValue", "floorUValue", "ceilingUValue"}

OtherUValues == {1, 2, 30, 55, 140, 141, 1000}

TransmissionOf(r, p) ==
    calculateTransmissionLoss(r, p, p.indoorTemp - p.outdoorTemp)

VentilationOf(r, p) ==
    calculateVentilationLoss(r, p, p.indoorTemp - p.outdoorTemp)

ReportedFor(r, p) == calculateRoomHeatLoss(r, p, 0)

\* An accepted input of the model other than the one of the settled call.
Comparable(r, p) == InputsValid(r, p) /\ ~RoundingTie(r, p)

\* The area a U-value applies to, in 1/(AreaScale * WALL_COUNT) m2.
ElementArea(field, r) ==
    CASE field = "wallUValue" ->
             (4 * Sqrt(r.area) * r.ceilingHeight - r.windowArea) * r.exteriorWalls
      [] field = "windowUValue" -> r.windowArea * r.exteriorWalls
      [] field = "floorUValue" -> r.area * 4
      [] field = "ceilingUValue" -> r.area * 4

\* C13 (as documented): of two accepted inputs that differ only in one
\* U-value, the one with the larger U-value yields a strictly larger
\* transmissionLoss.
C13_LargerUValueLargerLoss ==
    RoomCallFulfilled =>
        \A field \in UValueFields, u \in OtherUValues :
            LET other == [params EXCEPT ![field] = u]
            IN  (u > params[field] /\ Comparable(CalledRoom, other)) =>
                    ReportedFor(CalledRoom, other).transmissionLoss
                        > ret.result.transmissionLoss

\* C13: of two accepted inputs that differ only in one U-value, the one with
\* the larger U-value yields a strictly larger transmission loss before
\* rounding and a reported transmissionLoss that is not smaller when the area
\* the U-value applies to is positive (floor and ceiling: always; wall:
\* exteriorWalls > 0 and windowArea < 4 * sqrt(area) * ceilingHeight; window:
\* exteriorWalls > 0 and windowArea > 0), and the same transmission loss when
\* that area is zero.
C13_LargerUValueOnPositiveArea ==
    RoomCallFulfilled =>
        \A field \in UValueFields, u \in OtherUValues :
            LET other == [params EXCEPT ![field] = u]
            IN  (u > params[field] /\ Comparable(CalledRoom, other)) =>
                    /\ ElementArea(field, CalledRoom) > 0 =>
                          /\ TransmissionOf(CalledRoom, other)
                                > LastLogged.transmissionLoss
                          /\ ReportedFor(CalledRoom, other).transmissionLoss
                                >= ret.result.transmissionLoss
                    /\ ElementArea(field, CalledRoom) = 0 =>
                          /\ TransmissionOf(CalledRoom, other)
                                = LastLogged.transmissionLoss
                          /\ ReportedFor(CalledRoom, other).transmissionLoss
                                = ret.result.transmissionLoss

\* A room without exterior walls, for which a larger wall U-value changes
\* nothing while a larger ceiling U-value raises the reported loss.
C13_NoExteriorWalls ==
    /\ RoomCallFulfilled
    /\ CalledRoom.exteriorWalls = 0
    /\ \E u \in OtherUValues :
          /\ u > params.wallUValue
          /\ Comparable(CalledRoom, [params EXCEPT !.wallUValue = u])
          /\ ReportedFor(CalledRoom, [params EXCEPT !.wallUValue = u]).transmissionLoss
                = ret.result.transmissionLoss
    /\ \E u \in OtherUValues :
          /\ u > params.ceilingUValue
          /\ Comparable(CalledRoom, [params EXCEPT !.ceilingUValue = u])
          /\ ReportedFor(CalledRoom, [params EXCEPT !.ceilingUValue = u]).transmissionLoss
                > ret.result.transmissionLoss

OtherAirChangeRates == {0, 1, 3, 4, 5, 6, 100}

\* C14 (as documented): of two accepted inputs that differ only in
\* airChangeRate, the one with the larger airChangeRate yields a strictly
\* larger ventilationLoss.
C14_LargerRateLargerLoss ==
    RoomCallFulfilled =>
        \A rate \in OtherAirChangeRates :
            LET other == [params EXCEPT !.airChangeRate = rate]
            IN  (rate > params.airChangeRate /\ Comparable(CalledRoom, other)) =>
                    ReportedFor(CalledRoom, other).ventilationLoss
                        > ret.result.ventilationLoss

\* C14: of two accepted inputs that differ only in airChangeRate, the one
\* with the larger airChangeRate yields a strictly larger ventilation loss
\* before rounding and a reported ventilationLoss that is not smaller.
C14_LargerRateLargerUnroundedLoss ==
    RoomCallFulfilled =>
        \A rate \in OtherAirChangeRates :
            LET other == [params EXCEPT !.airChangeRate = rate]
            IN  (rate > params.airChangeRate /\ Comparable(CalledRoom, other)) =>
                    /\ VentilationOf(CalledRoom, other) > LastLogged.ventilationLoss
                    /\ ReportedFor(CalledRoom, other).ventilationLoss
                          >= ret.result.ventilationLoss

\* A room so small that 0.3 and 0.4 air changes per hour report the same
\* ventilationLoss.
C14_LargerRateSameReportedLoss ==
    /\ RoomCallFulfilled
    /\ params.airChangeRate = 3
    /\ Comparable(CalledRoom, [params EXCEPT !.airChangeRate = 4])
    /\ ReportedFor(CalledRoom, [params EXCEPT !.airChangeRate = 4]).ventilationLoss
          = ret.result.ventilationLoss
    /\ VentilationOf(CalledRoom, [params EXCEPT !.airChangeRate = 4])
          > LastLogged.ventilationLoss

OtherOutdoorTemps == {-20, -3, 13, 14}

OtherIndoorTemps == {15, 16, 20, 25}

\* 0 <= exteriorWalls <= 4 and 0 <= windowArea <= 4 * sqrt(area) * ceilingHeight.
SensibleGeometry(r) ==
    /\ r.exteriorWalls >= 0 /\ r.exteriorWalls <= 4
    /\ r.windowArea >= 0
    /\ r.windowArea <= 4 * Sqrt(r.area) * r.ceilingHeight

\* C15 (as documented): of two accepted inputs with the same room, the same
\* U-values and the same airChangeRate, the one with the larger indoorTemp -
\* outdoorTemp yields both a strictly larger transmissionLoss and a strictly
\* larger ventilationLoss.
C15_LargerDifferenceLargerLosses ==
    RoomCallFulfilled =>
        \A outdoor \in OtherOutdoorTemps, indoor \in OtherIndoorTemps :
            LET other == [params EXCEPT !.outdoorTemp = outdoor,
                                        !.indoorTemp = indoor]
            IN  (/\ indoor - outdoor > params.indoorTemp - params.outdoorTemp
                 /\ Comparable(CalledRoom, other)) =>
                    /\ ReportedFor(CalledRoom, other).transmissionLoss
                          > ret.result.transmissionLoss
                    /\ ReportedFor(CalledRoom, other).ventilationLoss
                          > ret.result.ventilationLoss

\* C15: of two accepted inputs with the same room, the same U-values and the
\* same airChangeRate, the one with the larger indoorTemp - outdoorTemp
\* yields reported losses that are not smaller when the geometry is sensible
\* (0 <= exteriorWalls <= 4, 0 <= windowArea <= 4 * sqrt(area) *
\* ceilingHeight), then a strictly larger transmission loss before rounding,
\* and a strictly larger ventilation loss before rounding when airChangeRate
\* > 0; with airChangeRate = 0 the ventilation loss is 0 for both.
C15_LargerDifferenceUnroundedLosses ==
    RoomCallFulfilled =>
        \A outdoor \in OtherOutdoorTemps, indoor \in OtherIndoorTemps :
            LET other == [params EXCEPT !.outdoorTemp = outdoor,
                                        !.indoorTemp = indoor]
            IN  (/\ indoor - outdoor > params.indoorTemp - params.outdoorTemp
                 /\ Comparable(CalledRoom, other)) =>
                    /\ SensibleGeometry(CalledRoom) =>
                          /\ TransmissionOf(CalledRoom, other)
                                > LastLogged.transmissionLoss
                          /\ ReportedFor(CalledRoom, other).transmissionLoss
                                >= ret.result.transmissionLoss
                    /\ ReportedFor(CalledRoom, other).ventilationLoss
                          >= ret.result.ventilationLoss
                    /\ params.airChangeRate > 0 =>
                          VentilationOf(CalledRoom, other)
                              > LastLogged.ventilationLoss
                    /\ params.airChangeRate = 0 =>
                          /\ ret.result.ventilationLoss = 0
                          /\ ReportedFor(CalledRoom, other).ventilationLoss = 0

\* A sealed room (airChangeRate 0) on a mild day: a colder day raises the
\* reported transmissionLoss and leaves the ventilationLoss at 0.
C15_SealedRoomColderDay ==
    /\ RoomCallFulfilled
    /\ SensibleGeometry(CalledRoom)
    /\ params.airChangeRate = 0
    /\ params.outdoorTemp = 13
    /\ Comparable(CalledRoom, [params EXCEPT !.outdoorTemp = -20])
    /\ ReportedFor(CalledRoom, [params EXCEPT !.outdoorTemp = -20]).transmissionLoss
          > ret.result.transmissionLoss
    /\ ReportedFor(CalledRoom, [params EXCEPT !.outdoorTemp = -20]).ventilationLoss = 0

\* C16: for every accepted input with sensible geometry (0 <= exteriorWalls
\* <= 4, 0 <= windowArea <= 4 * sqrt(area) * ceilingHeight) and
\* airChangeRate > 0 the transmission loss, the ventilation loss and the
\* total heat loss are strictly positive before rounding, and no reported
\* output (transmissionLoss, ventilationLoss, totalHeatLoss, designHeatLoad)
\* is negative.
C16_LossesPositive ==
    (RoomCallFulfilled /\ SensibleGeometry(CalledRoom) /\ params.airChangeRate > 0) =>
        /\ LastLogged.transmissionLoss > 0
        /\ LastLogged.ventilationLoss > 0
        /\ LastLogged.totalHeatLoss > 0
        /\ ret.result.transmissionLoss >= 0
        /\ ret.result.ventilationLoss >= 0
        /\ ret.result.totalHeatLoss >= 0
        /\ ret.result.designHeatLoad >= 0

\* The living room of the reference scenario on a day of -3 degrees.
C16_LivingRoomComputed ==
    /\ RoomCallFulfilled
    /\ CalledRoom = RefRoom
    /\ params.outdoorTemp = -3 /\ params.indoorTemp = 20
    /\ params.airChangeRate = 5
    /\ LastLogged.ventilationLoss > LastLogged.transmissionLoss
    /\ ret.result.designHeatLoad > ret.result.totalHeatLoss

\* Two rooms that differ at most in id, name, doorCount and targetTemp.
SameButInformational(r1, r2) ==
    [r1 EXCEPT !.id = r2.id, !.name = r2.name, !.doorCount = r2.doorCount,
               !.targetTemp = r2.targetTemp] = r2

\* C17: two accepted calls of calculateRoomHeatLoss whose rooms differ only
\* in doorCount, targetTemp, id or name return identical transmissionLoss,
\* ventilationLoss, totalHeatLoss and designHeatLoad; the indoor temperature
\* used is params.indoorTemp, never room.targetTemp.
C17_InformationalFieldsIgnored ==
    \A i, j \in 1..Len(rooms) :
        (/\ SameButInformational(rooms[i], rooms[j])
         /\ seenRoom[i].kind = "fulfilled"
         /\ seenRoom[j].kind = "fulfilled") =>
            /\ seenRoom[i].transmissionLoss = seenRoom[j].transmissionLoss
            /\ seenRoom[i].ventilationLoss = seenRoom[j].ventilationLoss
            /\ seenRoom[i].totalHeatLoss = seenRoom[j].totalHeatLoss
            /\ seenRoom[i].designHeatLoad = seenRoom[j].designHeatLoad

\* The living room and the study, which differ in id, name, doorCount and
\* targetTemp only, both computed.
C17_TwinRoomsComputed ==
    /\ Len(rooms) = 2
    /\ rooms[1] = RefRoom
    /\ rooms[2] = StudyRoom
    /\ rooms[2].targetTemp # params.indoorTemp
    /\ seenRoom[1].kind = "fulfilled"
    /\ seenRoom[2].kind = "fulfilled"


\* The transmission loss as documented, in 1/Scale W: the wall area is
\* 4 * sqrt(area) * ceilingHeight - windowArea and the exterior factor is
\* exteriorWalls / 4, both used as they are; the floor counts for half.
DocumentedTransmission(r, p) ==
    LET tempDiff == p.indoorTemp - p.outdoorTemp
        quarters ==
            p.wallUValue * (4 * Sqrt(r.area) * r.ceilingHeight - r.windowArea)
                         * r.exteriorWalls
            + p.windowUValue * r.windowArea * r.exteriorWalls
            + 2 * p.floorUValue * r.area
            + 4 * p.ceilingUValue * r.area
    IN  tempDiff * quarters * (Scale \div (4 * UScale * AreaScale))

C19_FixedSafetyFactorAndMethod ==
    /\ RoomCallFulfilled =>
           ret.result.safetyFactor = 115 /\ ret.result.method = "EN_12831"
    /\ \A order \in DOMAIN seenBuilding :
           BuildingFulfilled(order) =>
               \A k \in 1..Len(seenBuilding[order].rooms) :
                   /\ seenBuilding[order].rooms[k].result.safetyFactor = 115
                   /\ seenBuilding[order].rooms[k].result.method = "EN_12831"

\* A closet of 1/16 m2 without ventilation on a mild day: the design load is
\* below one watt and the result still carries the factor and the label.
C19_TinyLoadCarriesBoth ==
    /\ RoomCallFulfilled
    /\ CalledRoom.area = 1
    /\ params.airChangeRate = 0
    /\ ret.result.designHeatLoad < Scale
    /\ ret.result.safetyFactor = 115
    /\ ret.result.method = "EN_12831"


\* The documented sum with the factors of the floor and of the ceiling as
\* parameters, in halves: tempDiff * (walls + windows + floorHalves/2 * floor
\* + ceilingHalves/2 * ceiling), in 1/Scale W.
TransmissionSum(r, p, floorHalves, ceilingHalves) ==
    LET tempDiff == p.indoorTemp - p.outdoorTemp
        totalWallArea == 4 * Sqrt(r.area) * r.ceilingHeight
        walls == p.wallUValue * (totalWallArea - r.windowArea) * r.exteriorWalls
        windows == p.windowUValue * r.windowArea * r.exteriorWalls
        floor == p.floorUValue * r.area * 4
        ceiling == p.ceilingUValue * r.area * 4
    IN  (tempDiff * (2 * walls + 2 * windows + floorHalves * floor
                      + ceilingHalves * ceiling)
            * (Scale \div (4 * UScale * AreaScale))) \div 2

\* C20: for every accepted input the unrounded transmission loss, as logged,
\* is tempDiff * (wallUValue * (4 * sqrt(area) * ceilingHeight - windowArea)
\* * exteriorWalls / 4 + windowUValue * windowArea * exteriorWalls / 4
\* + 0.5 * floorUValue * area + ceilingUValue * area) with tempDiff =
\* indoorTemp - outdoorTemp: the floor is counted once in halves, the ceiling
\* twice.
C20_TransmissionFormula ==
    RoomCallFulfilled =>
        LastLogged.transmissionLoss = TransmissionSum(CalledRoom, params, 1, 2)

\* A well insulated ceiling over a poor floor: the floor term, though halved,
\* is the larger one, and halving the ceiling or counting the floor whole
\* would give another loss.
C20_FloorHalvedCeilingWhole ==
    /\ RoomCallFulfilled
    /\ params.floorUValue > 2 * params.ceilingUValue
    /\ CalledRoom.exteriorWalls > 0 /\ CalledRoom.windowArea > 0
    /\ LastLogged.transmissionLoss # TransmissionSum(CalledRoom, params, 2, 2)
    /\ LastLogged.transmissionLoss # TransmissionSum(CalledRoom, params, 1, 1)
    /\ LastLogged.transmissionLoss = TransmissionSum(CalledRoom, params, 1, 2)


\* volume * airChangeRate / 3600 * 1.2 * 1005 * (indoorTemp - outdoorTemp) as
\* documented, in 1/Scale W: 1.2 * 1005 / 3600 = 0.335 W/K for 1 m3/h, and
\* one count of volume times one count of airChangeRate is
\* 1/(VolScale * AchScale) m3/h.
DocumentedVentilation(r, p) ==
    LET wattsPerKelvin ==
            (335 * (Scale \div (VolScale * AchScale))) \div 1000
    IN  r.volume * p.airChangeRate * wattsPerKelvin
            * (p.indoorTemp - p.outdoorTemp)

\* C21: for every accepted input the unrounded ventilation loss, as logged,
\* is volume * airChangeRate / 3600 * 1.2 * 1005 * (indoorTemp - outdoorTemp);
\* it is 0 exactly when airChangeRate is 0 and it is never negative.
C21_VentilationFormula ==
    RoomCallFulfilled =>
        /\ LastLogged.ventilationLoss = DocumentedVentilation(CalledRoom, params)
        /\ LastLogged.ventilationLoss = 0 <=> params.airChangeRate = 0
        /\ LastLogged.ventilationLoss >= 0

\* 0.3 air changes of 1/8 m3 at a difference of 2 degrees: a loss of 0.025125
\* W, positive and below three hundredths.
C21_SmallestPositiveLoss ==
    /\ RoomCallFulfilled
    /\ CalledRoom.volume = 1
    /\ params.airChangeRate = 3
    /\ params.indoorTemp - params.outdoorTemp = 2
    /\ LastLogged.ventilationLoss = 804
    /\ ret.result.ventilationLoss = 3 * (Scale \div 100)


\* floor(v * 100 + 1/2) / 100 of a value v in 1/Scale W, in 1/Scale W.
HalfUpToHundredths(v) ==
    ((2 * v + Scale \div 100) \div (2 * (Scale \div 100))) * (Scale \div 100)

\* floor(v * 1.15 * 100 + 1/2) / 100, the whole watts and the rest of v
\* multiplied apart.
HalfUpOfDesign(v) ==
    (v \div Scale) * 115 * (Scale \div 100)
      + ((2 * (v % Scale) * 115 + Scale) \div (2 * Scale)) * (Scale \div 100)

\* C22: each of transmissionLoss, ventilationLoss, totalHeatLoss and
\* designHeatLoad is reported as its own unrounded value rounded to 2
\* decimals by floor(v * 100 + 1/2) / 100, a value exactly halfway going up;
\* the total and the design load are rounded from the unrounded sum and the
\* unrounded sum times 1.15, not from the rounded components.
C22_EachRoundedHalfUpFromUnrounded ==
    RoomCallFulfilled =>
        /\ ret.result.transmissionLoss =
               HalfUpToHundredths(LastLogged.transmissionLoss)
        /\ ret.result.ventilationLoss =
               HalfUpToHundredths(LastLogged.ventilationLoss)
        /\ LastLogged.totalHeatLoss =
               LastLogged.transmissionLoss + LastLogged.ventilationLoss
        /\ ret.result.totalHeatLoss =
               HalfUpToHundredths(LastLogged.totalHeatLoss)
        /\ ret.result.designHeatLoad = HalfUpOfDesign(LastLogged.totalHeatLoss)

\* 1 m2 under a ceiling of 0.5 W/m2K over a floor of 0.25 at a difference of
\* 5 degrees: 3.125 W, reported as 3.13 (3.12 would be the even neighbour).
C22_HalfwayGoesUp ==
    /\ RoomCallFulfilled
    /\ LastLogged.transmissionLoss = 3 * Scale + Scale \div 8
    /\ ret.result.transmissionLoss = 313 * (Scale \div 100)
    /\ ret.result.totalHeatLoss = 313 * (Scale \div 100)


\* The positions of the invalid rooms in the list of the settled building call.
InvalidPicked == { k \in 1..Len(ret.arg) : ~InputsValid(PickedRooms[k], params) }

FirstInvalidPicked == CHOOSE k \in InvalidPicked : \A j \in InvalidPicked : k <= j

\* C23: when rooms of one calculateBuildingHeatLoss call are invalid, the
\* caller receives one error, the validation error of the first invalid room
\* in input order, however many rooms are invalid and whatever their errors.
C23_FirstInvalidRoomReported ==
    (BuildingCallSettled /\ InvalidPicked # {}) =>
        /\ ret.result.kind = "rejected"
        /\ DOMAIN ret.result = {"kind", "message"}
        /\ ret.result.message =
               RuleMessages[FirstViolated(PickedRooms[FirstInvalidPicked], params)]

\* A building call on two invalid rooms with different errors (no volume,
\* then no area): the volume error is delivered, and both were logged.
C23_TwoInvalidRoomsCalled ==
    /\ BuildingCallSettled
    /\ InvalidPicked = {1, 2}
    /\ PickedRooms[1].volume = 0 /\ PickedRooms[1].area > 0
    /\ PickedRooms[2].area = 0
    /\ ret.result.kind = "rejected"
    /\ ret.result.message = "Room volume must be greater than 0"
    /\ Len(log) >= 2
    /\ log[Len(log)].level = "error"
    /\ log[Len(log)].error = "Room area must be greater than 0"
    /\ log[Len(log) - 1].error = "Room volume must be greater than 0"


\* C24: the rooms array of a successful calculateBuildingHeatLoss has the
\* length and the order of the input list: entry k carries the id of input
\* room k and its result, also when input rooms share an id; no room is
\* dropped, merged or reordered.
C24_RoomsInInputOrder ==
    (BuildingCallSettled /\ ret.result.kind = "fulfilled") =>
        /\ Len(ret.result.rooms) = Len(ret.arg)
        /\ \A k \in 1..Len(ret.arg) :
               /\ ret.result.rooms[k].roomId = PickedRooms[k].id
               /\ Numeric(ret.result.rooms[k].result)
                      = Numeric(ReportedFor(PickedRooms[k], params))

\* A successful building call on the living room listed twice: two entries
\* with one id.
C24_SameRoomTwice ==
    /\ BuildingCallSettled
    /\ ret.result.kind = "fulfilled"
    /\ Len(ret.arg) = 2
    /\ PickedRooms[1] = PickedRooms[2]
    /\ Len(ret.result.rooms) = 2
    /\ ret.result.rooms[1].roomId = ret.result.rooms[2].roomId
    /\ ret.result.totalHeatLoss = 2 * ret.result.rooms[1].result.totalHeatLoss


\* C25: calculateBuildingHeatLoss on an empty room list succeeds with an
\* empty rooms array, totalHeatLoss 0 and totalDesignLoad 0, whatever the
\* params: without a room nothing validates them.
C25_EmptyBuildingSucceeds ==
    (BuildingCallSettled /\ ret.arg = <<>>) =>
        /\ ret.result.kind = "fulfilled"
        /\ ret.result.rooms = <<>>
        /\ ret.result.totalHeatLoss = 0
        /\ ret.result.totalDesignLoad = 0

\* An empty list with an indoor temperature of -5 degrees, which any room
\* would be rejected for: the call succeeds and writes no log line, where a
\* call on the living room with the same params was rejected before.
C25_EmptyListInvalidParams ==
    /\ BuildingCallSettled /\ ret.arg = <<>>
    /\ params.indoorTemp < 15
    /\ ret.result.kind = "fulfilled"
    /\ Len(rooms) > 0
    /\ seenRoom[1].kind = "rejected"
    /\ Len(log) = 1


TemperatureRangeMessages ==
    { "Outdoor temperature too low (min: -20°C)",
      "Outdoor temperature too high (max: 15°C)",
      "Indoor temperature too low (min: 15°C)",
      "Indoor temperature too high (max: 25°C)" }

GeometryValid(r) == r.area > 0 /\ r.volume > 0 /\ r.ceilingHeight > 0

\* C26: calculateRoomHeatLoss rejects with 'Indoor temperature must be
\* greater than outdoor temperature' only when indoorTemp = outdoorTemp = 15
\* (and then it does, the room geometry being valid); for every other pair
\* with indoorTemp <= outdoorTemp a temperature-range check fails first and
\* its message is reported.
C26_DifferenceMessageOnlyAtFifteen ==
    RoomCallSettled =>
        /\ (/\ ret.result.kind = "rejected"
            /\ ret.result.message =
                 "Indoor temperature must be greater than outdoor temperature")
             <=> (/\ GeometryValid(CalledRoom)
                  /\ params.indoorTemp = 15 /\ params.outdoorTemp = 15)
        /\ (/\ GeometryValid(CalledRoom)
            /\ params.indoorTemp <= params.outdoorTemp
            /\ ~(params.indoorTemp = 15 /\ params.outdoorTemp = 15))
             => (/\ ret.result.kind = "rejected"
                 /\ ret.result.message \in TemperatureRangeMessages)

\* A call with 15 degrees inside and outside, geometry valid: both are within
\* their ranges and the comparison of the two is what rejects the call.
C26_FifteenInsideAndOutside ==
    /\ RoomCallSettled
    /\ GeometryValid(CalledRoom)
    /\ params.indoorTemp = 15 /\ params.outdoorTemp = 15
    /\ ret.result.kind = "rejected"
    /\ ret.result.message =
         "Indoor temperature must be greater than outdoor temperature"

\* Degrees by which both temperatures are moved together.
OtherShifts == {-5, -2, 1, 5}

Shifted(p, s) ==
    [p EXCEPT !.outdoorTemp = p.outdoorTemp + s, !.indoorTemp = p.indoorTemp + s]

\* C27: two accepted inputs with the same room, U-values and airChangeRate
\* and the same indoorTemp - outdoorTemp return the same transmissionLoss,
\* ventilationLoss, totalHeatLoss and designHeatLoad (and have the same
\* unrounded losses).
C27_OnlyTheDifferenceCounts ==
    RoomCallFulfilled =>
        \A s \in OtherShifts :
            Comparable(CalledRoom, Shifted(params, s)) =>
                /\ Numeric(ReportedFor(CalledRoom, Shifted(params, s)))
                       = Numeric(ret.result)
                /\ TransmissionOf(CalledRoom, Shifted(params, s))
                       = LastLogged.transmissionLoss
                /\ VentilationOf(CalledRoom, Shifted(params, s))
                       = LastLogged.ventilationLoss

\* The living room at 20 degrees on a day of -3, against 15 degrees on a day
\* of -8 and 25 degrees on a day of 2: all three accepted, one result.
C27_SameDifferenceThreeWays ==
    /\ RoomCallFulfilled
    /\ CalledRoom = RefRoom
    /\ params.indoorTemp = 20 /\ params.outdoorTemp = -3
    /\ Comparable(CalledRoom, Shifted(params, -5))
    /\ Comparable(CalledRoom, Shifted(params, 5))
    /\ ReportedFor(CalledRoom, Shifted(params, -5)).designHeatLoad
           = ret.result.designHeatLoad
    /\ ReportedFor(CalledRoom, Shifted(params, 5)).designHeatLoad
           = ret.result.designHeatLoad


\* Window areas (1/AreaScale m2), ceiling heights (1/LenScale m) and wall and
\* window U-values (1/UScale W/m2K) a room without exterior walls is
\* computed with as well.
OtherWindowAreas == {0, 64, 1600}
OtherCeilingHeights == {1, 10, 40}
OtherWallUValues == {1, 30, 1000}
OtherWindowUValues == {1, 140, 1000}

\* (0.5 * floorUValue + ceilingUValue) * area * (indoorTemp - outdoorTemp), in
\* 1/Scale W.
FloorAndCeilingLoss(r, p) ==
    (p.floorUValue + 2 * p.ceilingUValue) * r.area
        * (p.indoorTemp - p.outdoorTemp) * (Scale \div (2 * UScale * AreaScale))

\* C28: for an accepted room with exteriorWalls = 0 the transmission loss is
\* (0.5 * floorUValue + ceilingUValue) * area * (indoorTemp - outdoorTemp),
\* and it stays the same under any change of windowArea, ceilingHeight,
\* wallUValue and windowUValue within their accepted ranges.
C28_NoExteriorWallsFloorAndCeilingOnly ==
    (RoomCallFulfilled /\ CalledRoom.exteriorWalls = 0) =>
        /\ LastLogged.transmissionLoss = FloorAndCeilingLoss(CalledRoom, params)
        /\ \A w \in OtherWindowAreas, h \in OtherCeilingHeights,
              uw \in OtherWallUValues, uwin \in OtherWindowUValues :
               LET r == [CalledRoom EXCEPT !.windowArea = w, !.ceilingHeight = h]
                   p == [params EXCEPT !.wallUValue = uw, !.windowUValue = uwin]
               IN  /\ Comparable(r, p)
                   /\ TransmissionOf(r, p) = LastLogged.transmissionLoss
                   /\ ReportedFor(r, p).transmissionLoss
                          = ret.result.transmissionLoss

\* A room of 20.25 m2 without exterior walls and with a window of 4 m2: the
\* loss is that of the floor and the ceiling, while the same room with two
\* exterior walls loses more.
C28_InnerRoomWithWindow ==
    /\ RoomCallFulfilled
    /\ CalledRoom.exteriorWalls = 0
    /\ CalledRoom.area = 324 /\ CalledRoom.windowArea = 64
    /\ LastLogged.transmissionLoss = FloorAndCeilingLoss(CalledRoom, params)
    /\ TransmissionOf([CalledRoom EXCEPT !.exteriorWalls = 2], params)
           > LastLogged.transmissionLoss


ErrorHandled == ret.op = "errorHandler"

HandledError == ret.arg.err

\* The error label and the message of the answer as documented, for the
\* status the response was sent with.
LabelAndMessageAsDocumented ==
    /\ ret.result.body.statusCode = ret.result.status
    /\ ret.result.body.error =
           (IF ret.result.status >= 500 THEN "Internal Server Error"
            ELSE IF HandledError.name = "" THEN "Error" ELSE HandledError.name)
    /\ ret.result.body.message =
           (IF ret.result.status >= 500 /\ ret.arg.nodeEnv = "production"
            THEN "An unexpected error occurred"
            ELSE IF HandledError.message = "" THEN "Internal Server Error"
            ELSE HandledError.message)

\* The handled error is a validation Error of HeatLossService: a plain Error
\* with one of the validation messages and no statusCode.
ValidationErrorHandled ==
    /\ ErrorHandled
    /\ "statusCode" \notin DOMAIN HandledError
    /\ \E k \in 1..Len(RuleMessages) : HandledError.message = RuleMessages[k]

ValidationErrorAnsweredWith500 ==
    ValidationErrorHandled =>
        /\ ret.result.status = 500
        /\ ret.result.body.error = "Internal Server Error"
        /\ ret.arg.nodeEnv = "production" =>
               ret.result.body.message # HandledError.message

=============================================================================
